---- MODULE Spec2Model ----
(***************************************************************************)
(* State-machine model of the ERC721 runtime module                        *)
(* (runtime/src/erc721.rs): the four storage maps of decl_storage!, the    *)
(* dispatchable calls of decl_module! and the private helpers of           *)
(* impl Module.                                                            *)
(***************************************************************************)
EXTENDS Integers, Sequences, FiniteSets, TLC

\* ---------------------------------------------------------------- bounds
\* Width of the u32 counter, scaled down so that checked_add can fail.
CounterMax == 2
\* Number of calls in one run.
MaxCalls == 4

\* T::AccountId and T::Hash are opaque: three accounts (an owner, a spender or
\* operator, a recipient) and two token ids.
Account == {"A", "B", "C"}
Hash == {"T1", "T2"}

\* Option<AccountId>::None
None == "None"
\* Option<u32>::None, the failure value of checked_add / checked_sub
NoneU32 == -1

VARIABLES
    OwnedTokensCount,   \* map T::AccountId => u32 (partial: stored keys only)
    TokenOwner,         \* map T::Hash => Option<T::AccountId> (stored keys only)
    TokenApprovals,     \* map T::Hash => Option<T::AccountId> (stored keys only)
    OperatorApprovals,  \* map (T::AccountId, T::AccountId) => bool, as read by its getter
    events,             \* events deposited by the last call
    result,             \* Result of the last call: Ok or the error message
    lastCall,           \* the last call and its arguments
    calls,              \* number of calls made so far
    lastTransferTo,     \* per token, the 'to' of the last Transfer event deposited for it
    beforeMint          \* what the getters returned before the create_token that has just
                        \* succeeded, kept over a _burn that follows it at once

maps == <<OwnedTokensCount, TokenOwner, TokenApprovals, OperatorApprovals>>
vars == <<OwnedTokensCount, TokenOwner, TokenApprovals, OperatorApprovals,
          events, result, lastCall, calls, lastTransferTo, beforeMint>>

\* ------------------------------------------------------- storage semantics
EmptyMap == [k \in {} |-> k]
Insert(m, key, value) == [k \in (DOMAIN m) \cup {key} |-> IF k = key THEN value ELSE m[k]]
Remove(m, key) == [k \in (DOMAIN m) \ {key} |-> m[k]]

\* getters generated by decl_storage!
balance_of(a) == IF a \in DOMAIN OwnedTokensCount THEN OwnedTokensCount[a] ELSE 0
owner_of(t) == IF t \in DOMAIN TokenOwner THEN TokenOwner[t] ELSE None
get_approved(t) == IF t \in DOMAIN TokenApprovals THEN TokenApprovals[t] ELSE None
is_approved_for_all(pair) == OperatorApprovals[pair]

\* u32 arithmetic
\* faulty variant: the limit is taken one too high
checked_add_off_by_one(a, b) == IF a + b > CounterMax + 1 THEN NoneU32 ELSE a + b
\* faulty variant: the sum wraps around instead of failing
checked_add_wrapping(a, b) == (a + b) % (CounterMax + 1)
checked_add(a, b) == IF a + b > CounterMax THEN NoneU32 ELSE a + b
checked_sub(a, b) == IF a - b < 0 THEN NoneU32 ELSE a - b

\* ------------------------------------------------------------ results
\* the error messages of the source, without their quotation marks
Ok == "Ok"
ErrNoOwner == "No owner for this token"
ErrImplicitOwner == "Owner is implicitly approved"
ErrNotAllowedApprove == "You are not allowed to approve for this token"
ErrSelfOperator == "You are already implicity approved for your own actions"
ErrNotOwner == "You do not own this token"
ErrExistentialDeposit == "to account does not satisfy the ExistentialDeposit requirement"
ErrExists == "Token already exists"
ErrMintOverflow == "Overflow adding a new token to account balance"
ErrBurnUnderflow == "Underflow subtracting a token to account balance"
ErrFromNotOwner == "from account does not own this token"
ErrTransferUnderflow == "Transfer causes underflow of from token balance"
ErrTransferOverflow == "Transfer causes overflow of to token balance"

\* events of decl_event!
Transfer(from, to, token_id) == [event |-> "Transfer", from |-> from, to |-> to, token_id |-> token_id]
Approval(owner, to, token_id) == [event |-> "Approval", owner |-> owner, approved |-> to, token_id |-> token_id]
ApprovalForAll(owner, operator, approved) == [event |-> "ApprovalForAll", owner |-> owner, operator |-> operator, flag |-> approved]

\* return Err(msg) before any write
Err(msg) ==
    /\ result' = msg
    /\ events' = <<>>
    /\ UNCHANGED maps

\* ------------------------------------------------------------ helpers
\* faulty variant: looks the token up in the wrong map
_exists_by_approval(token_id) == token_id \in DOMAIN TokenApprovals
_exists(token_id) == token_id \in DOMAIN TokenOwner

\* faulty variant: the operator pair is looked up as (spender, owner)
_is_approved_or_owner_swapped(spender, token_id) ==
    LET owner == owner_of(token_id)
        approved_user == get_approved(token_id)
        approved_as_owner == IF owner # None THEN owner = spender ELSE FALSE
        approved_as_delegate == IF owner # None THEN is_approved_for_all(<<spender, owner>>) ELSE FALSE
        approved_as_user == IF approved_user # None THEN approved_user = spender ELSE FALSE
    IN approved_as_owner \/ approved_as_user \/ approved_as_delegate

_is_approved_or_owner(spender, token_id) ==
    LET owner == owner_of(token_id)
        approved_user == get_approved(token_id)
        approved_as_owner == IF owner # None THEN owner = spender ELSE FALSE
        approved_as_delegate == IF owner # None THEN is_approved_for_all(<<owner, spender>>) ELSE FALSE
        approved_as_user == IF approved_user # None THEN approved_user = spender ELSE FALSE
    IN approved_as_owner \/ approved_as_user \/ approved_as_delegate

\* faulty variant: the approval is left in place
_clear_approval_kept(token_id) == TokenApprovals

\* the TokenApprovals map after <TokenApprovals<T>>::remove(token_id)
_clear_approval(token_id) == Remove(TokenApprovals, token_id)

\* faulty variant: the balance read is written back, not the incremented one
_mint_stale_balance(to, token_id) ==
    IF _exists(token_id) THEN Err(ErrExists)
    ELSE LET balance_of_to == balance_of(to)
             new_balance_of == checked_add(balance_of_to, 1)
         IN IF new_balance_of = NoneU32 THEN Err(ErrMintOverflow)
            ELSE /\ TokenOwner' = Insert(TokenOwner, token_id, to)
                 /\ OwnedTokensCount' = Insert(OwnedTokensCount, to, balance_of_to)
                 /\ events' = <<Transfer(None, to, token_id)>>
                 /\ result' = Ok
                 /\ UNCHANGED <<TokenApprovals, OperatorApprovals>>

_mint(to, token_id) ==
    IF _exists(token_id) THEN Err(ErrExists)
    ELSE LET balance_of_to == balance_of(to)
             new_balance_of == checked_add(balance_of_to, 1)
         IN IF new_balance_of = NoneU32 THEN Err(ErrMintOverflow)
            ELSE /\ TokenOwner' = Insert(TokenOwner, token_id, to)
                 /\ OwnedTokensCount' = Insert(OwnedTokensCount, to, new_balance_of)
                 /\ events' = <<Transfer(None, to, token_id)>>
                 /\ result' = Ok
                 /\ UNCHANGED <<TokenApprovals, OperatorApprovals>>

\* faulty variant: the counter of the owner is not decremented
_burn_no_debit(token_id) ==
    LET owner == owner_of(token_id) IN
    IF owner = None THEN Err(ErrNoOwner)
    ELSE LET balance_of_owner == balance_of(owner)
             new_balance_of == checked_sub(balance_of_owner, 1)
         IN IF new_balance_of = NoneU32 THEN Err(ErrBurnUnderflow)
            ELSE /\ TokenApprovals' = _clear_approval(token_id)
                 /\ TokenOwner' = Remove(TokenOwner, token_id)
                 /\ events' = <<Transfer(owner, None, token_id)>>
                 /\ result' = Ok
                 /\ UNCHANGED <<OwnedTokensCount, OperatorApprovals>>

\* faulty variant: the approval of the burned token is left in place
_burn_approval_kept(token_id) ==
    LET owner == owner_of(token_id) IN
    IF owner = None THEN Err(ErrNoOwner)
    ELSE LET balance_of_owner == balance_of(owner)
             new_balance_of == checked_sub(balance_of_owner, 1)
         IN IF new_balance_of = NoneU32 THEN Err(ErrBurnUnderflow)
            ELSE /\ OwnedTokensCount' = Insert(OwnedTokensCount, owner, new_balance_of)
                 /\ TokenOwner' = Remove(TokenOwner, token_id)
                 /\ events' = <<Transfer(owner, None, token_id)>>
                 /\ result' = Ok
                 /\ UNCHANGED <<TokenApprovals, OperatorApprovals>>

_burn(token_id) ==
    LET owner == owner_of(token_id) IN
    IF owner = None THEN Err(ErrNoOwner)
    ELSE LET balance_of_owner == balance_of(owner)
             new_balance_of == checked_sub(balance_of_owner, 1)
         IN IF new_balance_of = NoneU32 THEN Err(ErrBurnUnderflow)
            ELSE /\ TokenApprovals' = _clear_approval(token_id)
                 /\ OwnedTokensCount' = Insert(OwnedTokensCount, owner, new_balance_of)
                 /\ TokenOwner' = Remove(TokenOwner, token_id)
                 /\ events' = <<Transfer(owner, None, token_id)>>
                 /\ result' = Ok
                 /\ UNCHANGED OperatorApprovals

\* faulty variant: the approval is cleared before the counters are checked
_transfer_from_early_clear(from, to, token_id) ==
    LET owner == owner_of(token_id) IN
    IF owner = None THEN Err(ErrNoOwner)
    ELSE IF owner # from THEN Err(ErrFromNotOwner)
    ELSE LET balance_of_from == balance_of(from)
             balance_of_to == balance_of(to)
             new_balance_of_from == checked_sub(balance_of_from, 1)
             new_balance_of_to == checked_add(balance_of_to, 1)
             failed == new_balance_of_from = NoneU32 \/ new_balance_of_to = NoneU32
         IN /\ TokenApprovals' = _clear_approval(token_id)
            /\ IF failed
               THEN /\ result' = IF new_balance_of_from = NoneU32
                                 THEN ErrTransferUnderflow ELSE ErrTransferOverflow
                    /\ events' = <<>>
                    /\ UNCHANGED <<OwnedTokensCount, TokenOwner, OperatorApprovals>>
               ELSE /\ OwnedTokensCount' = Insert(Insert(OwnedTokensCount, from, new_balance_of_from),
                                                  to, new_balance_of_to)
                    /\ TokenOwner' = Insert(TokenOwner, token_id, to)
                    /\ events' = <<Transfer(from, to, token_id)>>
                    /\ result' = Ok
                    /\ UNCHANGED OperatorApprovals

\* faulty variant: the event names the two accounts in the wrong order
_transfer_from_event_swapped(from, to, token_id) ==
    LET owner == owner_of(token_id) IN
    IF owner = None THEN Err(ErrNoOwner)
    ELSE IF owner # from THEN Err(ErrFromNotOwner)
    ELSE LET balance_of_from == balance_of(from)
             balance_of_to == balance_of(to)
             new_balance_of_from == checked_sub(balance_of_from, 1)
             new_balance_of_to == checked_add(balance_of_to, 1)
         IN IF new_balance_of_from = NoneU32 THEN Err(ErrTransferUnderflow)
            ELSE IF new_balance_of_to = NoneU32 THEN Err(ErrTransferOverflow)
            ELSE /\ TokenApprovals' = _clear_approval(token_id)
                 /\ OwnedTokensCount' = Insert(Insert(OwnedTokensCount, from, new_balance_of_from),
                                               to, new_balance_of_to)
                 /\ TokenOwner' = Insert(TokenOwner, token_id, to)
                 /\ events' = <<Transfer(to, from, token_id)>>
                 /\ result' = Ok
                 /\ UNCHANGED OperatorApprovals

\* faulty variant: the counter of from is not decremented
_transfer_from_no_debit(from, to, token_id) ==
    LET owner == owner_of(token_id) IN
    IF owner = None THEN Err(ErrNoOwner)
    ELSE IF owner # from THEN Err(ErrFromNotOwner)
    ELSE LET balance_of_from == balance_of(from)
             balance_of_to == balance_of(to)
             new_balance_of_from == checked_sub(balance_of_from, 1)
             new_balance_of_to == checked_add(balance_of_to, 1)
         IN IF new_balance_of_from = NoneU32 THEN Err(ErrTransferUnderflow)
            ELSE IF new_balance_of_to = NoneU32 THEN Err(ErrTransferOverflow)
            ELSE /\ TokenApprovals' = _clear_approval(token_id)
                 /\ OwnedTokensCount' = Insert(OwnedTokensCount, to, new_balance_of_to)
                 /\ TokenOwner' = Insert(TokenOwner, token_id, to)
                 /\ events' = <<Transfer(from, to, token_id)>>
                 /\ result' = Ok
                 /\ UNCHANGED OperatorApprovals

_transfer_from(from, to, token_id) ==
    LET owner == owner_of(token_id) IN
    IF owner = None THEN Err(ErrNoOwner)
    ELSE IF owner # from THEN Err(ErrFromNotOwner)
    ELSE LET balance_of_from == balance_of(from)
             balance_of_to == balance_of(to)
             new_balance_of_from == checked_sub(balance_of_from, 1)
             new_balance_of_to == checked_add(balance_of_to, 1)
         IN IF new_balance_of_from = NoneU32 THEN Err(ErrTransferUnderflow)
            ELSE IF new_balance_of_to = NoneU32 THEN Err(ErrTransferOverflow)
            ELSE /\ TokenApprovals' = _clear_approval(token_id)
                 \* two inserts in program order: the second wins when from = to
                 /\ OwnedTokensCount' = Insert(Insert(OwnedTokensCount, from, new_balance_of_from),
                                               to, new_balance_of_to)
                 /\ TokenOwner' = Insert(TokenOwner, token_id, to)
                 /\ events' = <<Transfer(from, to, token_id)>>
                 /\ result' = Ok
                 /\ UNCHANGED OperatorApprovals

\* ------------------------------------------------- dispatchable functions
\* faulty variant: the owner may be approved for its own token
approve_owner_allowed(sender, to, token_id) ==
    LET owner == owner_of(token_id) IN
    IF owner = None THEN Err(ErrNoOwner)
    ELSE IF ~(sender = owner \/ is_approved_for_all(<<owner, sender>>)) THEN Err(ErrNotAllowedApprove)
    ELSE /\ TokenApprovals' = Insert(TokenApprovals, token_id, to)
         /\ events' = <<Approval(owner, to, token_id)>>
         /\ result' = Ok
         /\ UNCHANGED <<OwnedTokensCount, TokenOwner, OperatorApprovals>>

\* faulty variant: the approved spender may approve as well
approve_by_spender(sender, to, token_id) ==
    LET owner == owner_of(token_id) IN
    IF owner = None THEN Err(ErrNoOwner)
    ELSE IF ~(to # owner) THEN Err(ErrImplicitOwner)
    ELSE IF ~_is_approved_or_owner(sender, token_id) THEN Err(ErrNotAllowedApprove)
    ELSE /\ TokenApprovals' = Insert(TokenApprovals, token_id, to)
         /\ events' = <<Approval(owner, to, token_id)>>
         /\ result' = Ok
         /\ UNCHANGED <<OwnedTokensCount, TokenOwner, OperatorApprovals>>

approve(sender, to, token_id) ==
    LET owner == owner_of(token_id) IN
    IF owner = None THEN Err(ErrNoOwner)
    ELSE IF ~(to # owner) THEN Err(ErrImplicitOwner)
    ELSE IF ~(sender = owner \/ is_approved_for_all(<<owner, sender>>)) THEN Err(ErrNotAllowedApprove)
    ELSE /\ TokenApprovals' = Insert(TokenApprovals, token_id, to)
         /\ events' = <<Approval(owner, to, token_id)>>
         /\ result' = Ok
         /\ UNCHANGED <<OwnedTokensCount, TokenOwner, OperatorApprovals>>

\* faulty variant: a revocation also drops the approvals of single tokens
set_approval_for_all_revoke_clears(sender, to, approved) ==
    IF ~(to # sender) THEN Err(ErrSelfOperator)
    ELSE /\ OperatorApprovals' = [OperatorApprovals EXCEPT ![<<sender, to>>] = approved]
         /\ TokenApprovals' = IF approved THEN TokenApprovals ELSE EmptyMap
         /\ events' = <<ApprovalForAll(sender, to, approved)>>
         /\ result' = Ok
         /\ UNCHANGED <<OwnedTokensCount, TokenOwner>>

\* faulty variant: only granting oneself the approval is refused
set_approval_for_all_grant_only(sender, to, approved) ==
    IF ~(to # sender) /\ approved THEN Err(ErrSelfOperator)
    ELSE /\ OperatorApprovals' = [OperatorApprovals EXCEPT ![<<sender, to>>] = approved]
         /\ events' = <<ApprovalForAll(sender, to, approved)>>
         /\ result' = Ok
         /\ UNCHANGED <<OwnedTokensCount, TokenOwner, TokenApprovals>>

set_approval_for_all(sender, to, approved) ==
    IF ~(to # sender) THEN Err(ErrSelfOperator)
    ELSE /\ OperatorApprovals' = [OperatorApprovals EXCEPT ![<<sender, to>>] = approved]
         /\ events' = <<ApprovalForAll(sender, to, approved)>>
         /\ result' = Ok
         /\ UNCHANGED <<OwnedTokensCount, TokenOwner, TokenApprovals>>

transfer_from(sender, from, to, token_id) ==
    IF ~_is_approved_or_owner(sender, token_id) THEN Err(ErrNotOwner)
    ELSE _transfer_from(from, to, token_id)

\* faulty variant: the transfer is made without the check of the caller
safe_transfer_from_unchecked(sender, from, to, token_id, to_balance) ==
    IF ~(to_balance # 0) THEN Err(ErrExistentialDeposit)
    ELSE _transfer_from(from, to, token_id)

\* to_balance: <balances::Module<T>>::free_balance(&to), read from the balances module
safe_transfer_from(sender, from, to, token_id, to_balance) ==
    IF ~(to_balance # 0) THEN Err(ErrExistentialDeposit)
    ELSE transfer_from(sender, from, to, token_id)

\* random_hash: the hash of (random_seed, sender), supplied by the system module
create_token(sender, random_hash) == _mint(sender, random_hash)

\* ------------------------------------------------------------- actions
\* a run makes at most MaxCalls calls
More == calls < MaxCalls

\* no create_token has just succeeded
NoMint == [token_id |-> None]
\* the values of the getters in the current state
GetterView(token_id) ==
    [token_id |-> token_id,
     balance_of |-> [a \in Account |-> balance_of(a)],
     owner_of |-> [t \in Hash |-> owner_of(t)],
     get_approved |-> [t \in Hash |-> get_approved(t)],
     is_approved_for_all |-> OperatorApprovals]
\* the 'to' of the last Transfer event for t among evs, old if there is none
LastTransferTo(evs, t, old) ==
    LET idx == {i \in 1..Len(evs) : evs[i].event = "Transfer" /\ evs[i].token_id = t}
    IN IF idx = {} THEN old ELSE evs[CHOOSE i \in idx : \A j \in idx : j <= i].to

\* the record of call c, taken once the call has returned
Called(c) ==
    /\ calls' = calls + 1
    /\ lastCall' = c
    /\ lastTransferTo' = IF events' = <<>> THEN lastTransferTo
                         ELSE [t \in Hash |-> LastTransferTo(events', t, lastTransferTo[t])]
    /\ beforeMint' = IF c.op = "create_token" /\ result' = Ok THEN GetterView(c.token_id)
                     ELSE IF c.op = "_burn" /\ lastCall.op = "create_token" THEN beforeMint
                     ELSE NoMint

Call_approve ==
    /\ More
    /\ \E sender \in Account, to \in Account, token_id \in Hash :
        /\ approve(sender, to, token_id)
        /\ Called([op |-> "approve", sender |-> sender, to |-> to, token_id |-> token_id])

Call_set_approval_for_all ==
    /\ More
    /\ \E sender \in Account, to \in Account, approved \in BOOLEAN :
        /\ set_approval_for_all(sender, to, approved)
        /\ Called([op |-> "set_approval_for_all", sender |-> sender, to |-> to, approved |-> approved])

Call_transfer_from ==
    /\ More
    /\ \E sender \in Account, from \in Account, to \in Account, token_id \in Hash :
        /\ transfer_from(sender, from, to, token_id)
        /\ Called([op |-> "transfer_from", sender |-> sender, from |-> from, to |-> to, token_id |-> token_id])

Call_safe_transfer_from ==
    /\ More
    /\ \E sender \in Account, from \in Account, to \in Account, token_id \in Hash, to_balance \in {0, 1} :
        /\ safe_transfer_from(sender, from, to, token_id, to_balance)
        /\ Called([op |-> "safe_transfer_from", sender |-> sender, from |-> from, to |-> to,
                   token_id |-> token_id, to_balance |-> to_balance])

Call_create_token ==
    /\ More
    /\ \E sender \in Account, random_hash \in Hash :
        /\ create_token(sender, random_hash)
        /\ Called([op |-> "create_token", sender |-> sender, token_id |-> random_hash])

Call_burn ==
    /\ More
    /\ \E token_id \in Hash :
        /\ _burn(token_id)
        /\ Called([op |-> "_burn", token_id |-> token_id])

Init ==
    /\ OwnedTokensCount = EmptyMap
    /\ TokenOwner = EmptyMap
    /\ TokenApprovals = EmptyMap
    /\ OperatorApprovals = [pair \in Account \X Account |-> FALSE]
    /\ events = <<>>
    /\ result = Ok
    /\ lastCall = [op |-> "none"]
    /\ calls = 0
    /\ lastTransferTo = [t \in Hash |-> None]
    /\ beforeMint = NoMint

Next ==
    \/ Call_approve
    \/ Call_set_approval_for_all
    \/ Call_transfer_from
    \/ Call_safe_transfer_from
    \/ Call_create_token
    \/ Call_burn

Spec == Init /\ [][Next]_vars

\* the dispatchable calls alone: _burn is private and nothing calls it
\* faulty variant: _burn is exposed as a call
NextBurnExposed == Next
NextDispatch ==
    \/ Call_approve
    \/ Call_set_approval_for_all
    \/ Call_transfer_from
    \/ Call_safe_transfer_from
    \/ Call_create_token

SpecDispatch == Init /\ [][NextDispatch]_vars

\* ================================================================ claims
\* the tokens whose stored owner is a
OwnedBy(a) == {t \in Hash : owner_of(t) = a}

\* the getters, read in the state a call leaves
balance_of_after(a) == IF a \in DOMAIN OwnedTokensCount' THEN OwnedTokensCount'[a] ELSE 0
owner_of_after(t) == IF t \in DOMAIN TokenOwner' THEN TokenOwner'[t] ELSE None
get_approved_after(t) == IF t \in DOMAIN TokenApprovals' THEN TokenApprovals'[t] ELSE None

\* the caller is neither the owner of t, nor its approved spender, nor an
\* operator of its owner
Unauthorised(caller, t) ==
    /\ caller # owner_of(t)
    /\ caller # get_approved(t)
    /\ ~(owner_of(t) # None /\ OperatorApprovals[<<owner_of(t), caller>>])

\* C1: after any sequence of operations, for every account a the stored
\* OwnedTokensCount[a] is the number of tokens t with TokenOwner[t] = Some(a).
C1_CountMatchesOwnership ==
    \A a \in Account : balance_of(a) = Cardinality(OwnedBy(a))

\* C2: a transfer_from with from = to by an authorised caller on a token owned
\* by from succeeds, leaves TokenOwner and every count as they were, clears the
\* approval of the token and emits Transfer(Some(from), Some(from), tokenId).
C2_SelfTransferIsNoOp ==
    [][(/\ lastCall'.op = "transfer_from"
        /\ lastCall'.from = lastCall'.to
        /\ owner_of(lastCall'.token_id) = lastCall'.from
        /\ ~Unauthorised(lastCall'.sender, lastCall'.token_id))
       => (/\ result' = Ok
           /\ TokenOwner' = TokenOwner
           /\ \A a \in Account : balance_of_after(a) = balance_of(a)
           /\ get_approved_after(lastCall'.token_id) = None
           /\ events' = <<Transfer(lastCall'.from, lastCall'.from, lastCall'.token_id)>>)]_vars

\* C3: transfer_from by a caller who is not the owner, not the approved spender
\* and not an operator of the owner fails with "You do not own this token",
\* whatever from and to are, and leaves the four maps unchanged.
C3_UnauthorisedTransferRejected ==
    [][(/\ lastCall'.op = "transfer_from"
        /\ Unauthorised(lastCall'.sender, lastCall'.token_id))
       => (result' = ErrNotOwner /\ UNCHANGED maps)]_vars

\* an outsider was refused the transfer of an existing token although from and
\* to were well chosen
C3_Witness ==
    /\ lastCall.op = "transfer_from"
    /\ result = ErrNotOwner
    /\ owner_of(lastCall.token_id) = lastCall.from
    /\ lastCall.to # lastCall.from
    /\ Unauthorised(lastCall.sender, lastCall.token_id)

\* C4: whenever a call returns an error, the four maps are what they were
\* before the call and no event has been deposited.
C4_FailureWritesNothing ==
    [][result' # Ok => (UNCHANGED maps /\ events' = <<>>)]_vars

\* a transfer of an approved token was rejected for overflow of the recipient's
\* counter, after the authorisation and ownership checks had passed
C4_Witness ==
    /\ lastCall.op \in {"transfer_from", "safe_transfer_from"}
    /\ result = ErrTransferOverflow
    /\ get_approved(lastCall.token_id) # None

\* C5: right after a successful transfer_from, safe_transfer_from or _burn on
\* t, get_approved(t) is None.
C5_ApprovalClearedOnOwnershipChange ==
    (lastCall.op \in {"transfer_from", "safe_transfer_from", "_burn"} /\ result = Ok)
        => get_approved(lastCall.token_id) = None

\* a transfer made by the approved spender (neither owner nor operator) succeeded
C5_Witness ==
    /\ lastCall.op \in {"transfer_from", "safe_transfer_from"}
    /\ result = Ok
    /\ lastCall.sender # lastCall.from
    /\ ~OperatorApprovals[<<lastCall.from, lastCall.sender>>]
    /\ get_approved(lastCall.token_id) = None

\* C6: a successful transfer_from with from # to sets TokenOwner[tokenId] to
\* Some(to), takes 1 from the count of from, adds 1 to the count of to, clears
\* the approval of tokenId, emits one Transfer(Some(from), Some(to), tokenId),
\* and leaves every other owner, count and approval and all of
\* OperatorApprovals unchanged.
C6_TransferEffect ==
    [][(/\ lastCall'.op = "transfer_from"
        /\ lastCall'.from # lastCall'.to
        /\ result' = Ok)
       => (/\ owner_of_after(lastCall'.token_id) = lastCall'.to
           /\ balance_of_after(lastCall'.from) = balance_of(lastCall'.from) - 1
           /\ balance_of_after(lastCall'.to) = balance_of(lastCall'.to) + 1
           /\ get_approved_after(lastCall'.token_id) = None
           /\ events' = <<Transfer(lastCall'.from, lastCall'.to, lastCall'.token_id)>>
           /\ \A t \in Hash \ {lastCall'.token_id} :
                 /\ owner_of_after(t) = owner_of(t)
                 /\ get_approved_after(t) = get_approved(t)
           /\ \A a \in Account \ {lastCall'.from, lastCall'.to} :
                 balance_of_after(a) = balance_of(a)
           /\ OperatorApprovals' = OperatorApprovals)]_vars

\* the approved spender, who is neither the owner nor an operator, moved the
\* only token of from to a third account
C6_Witness ==
    /\ lastCall.op = "transfer_from"
    /\ result = Ok
    /\ lastCall.from # lastCall.to
    /\ lastCall.sender \notin {lastCall.from, lastCall.to}
    /\ ~OperatorApprovals[<<lastCall.from, lastCall.sender>>]
    /\ owner_of(lastCall.token_id) = lastCall.to
    /\ balance_of(lastCall.from) = 0
    /\ balance_of(lastCall.to) = 1

\* C7: transfer_from succeeds exactly when the token exists, from is its
\* owner, the caller is the owner, the approved spender or an operator of the
\* owner, and the count of to is below the counter maximum.
C7_TransferSucceedsIff ==
    [][lastCall'.op = "transfer_from"
       => (result' = Ok
           <=> (/\ owner_of(lastCall'.token_id) # None
                /\ lastCall'.from = owner_of(lastCall'.token_id)
                /\ ~Unauthorised(lastCall'.sender, lastCall'.token_id)
                /\ balance_of(lastCall'.to) < CounterMax))]_vars

\* an operator moved a token of the approving owner in a run of three calls
\* (create_token, set_approval_for_all, transfer_from): no approve was made
C7_Witness ==
    /\ lastCall.op = "transfer_from"
    /\ result = Ok
    /\ calls = 3
    /\ lastCall.sender # lastCall.from
    /\ OperatorApprovals[<<lastCall.from, lastCall.sender>>]

\* C8: TokenApprovals[t] takes a new value Some(x) only in an approve call on
\* t with to = x whose caller is the owner of t or an operator of the owner;
\* approve fails with "No owner for this token" on a missing token, else with
\* "Owner is implicitly approved" when to is the owner, else with "You are not
\* allowed to approve for this token" when the caller is neither owner nor
\* operator, and succeeds otherwise.
C8_ApprovalSetOnlyByOwnerOrOperator ==
    [][/\ \A t \in Hash :
            (get_approved_after(t) # None /\ get_approved_after(t) # get_approved(t))
            => (/\ lastCall'.op = "approve"
                /\ lastCall'.token_id = t
                /\ lastCall'.to = get_approved_after(t)
                /\ owner_of(t) # None
                /\ \/ lastCall'.sender = owner_of(t)
                   \/ OperatorApprovals[<<owner_of(t), lastCall'.sender>>])
       /\ lastCall'.op = "approve"
            => result' =
                 IF owner_of(lastCall'.token_id) = None THEN ErrNoOwner
                 ELSE IF lastCall'.to = owner_of(lastCall'.token_id) THEN ErrImplicitOwner
                 ELSE IF /\ lastCall'.sender # owner_of(lastCall'.token_id)
                         /\ ~OperatorApprovals[<<owner_of(lastCall'.token_id), lastCall'.sender>>]
                      THEN ErrNotAllowedApprove
                 ELSE Ok]_vars

\* the approved spender of a token, neither its owner nor an operator, tried
\* to approve a third account and was refused
C8_Witness ==
    /\ lastCall.op = "approve"
    /\ result = ErrNotAllowedApprove
    /\ get_approved(lastCall.token_id) = lastCall.sender
    /\ lastCall.to # lastCall.sender

\* C9: OperatorApprovals[(a, a)] is false for every account a in every state,
\* and set_approval_for_all with operator = caller fails with "You are already
\* implicity approved for your own actions", for approved true and false.
C9_NoSelfOperator ==
    [][/\ \A a \in Account : ~OperatorApprovals'[<<a, a>>]
       /\ (lastCall'.op = "set_approval_for_all" /\ lastCall'.to = lastCall'.sender)
            => (result' = ErrSelfOperator /\ UNCHANGED maps)]_vars

\* an account tried to revoke its own operator approval and was refused
C9_Witness ==
    /\ lastCall.op = "set_approval_for_all"
    /\ lastCall.to = lastCall.sender
    /\ lastCall.approved = FALSE
    /\ result = ErrSelfOperator

\* C10: minting an existing token id fails with "Token already exists" and
\* changes no map; a successful mint of a missing token id sets its owner to
\* Some(to), adds exactly 1 to the count of to, leaves the token without
\* approval, emits Transfer(None, Some(to), tokenId) and changes nothing else.
C10_MintEffect ==
    [][lastCall'.op = "create_token"
       => /\ owner_of(lastCall'.token_id) # None
               => (result' = ErrExists /\ UNCHANGED maps /\ events' = <<>>)
          /\ (owner_of(lastCall'.token_id) = None /\ result' = Ok)
               => (/\ TokenOwner' = Insert(TokenOwner, lastCall'.token_id, lastCall'.sender)
                   /\ balance_of_after(lastCall'.sender) = balance_of(lastCall'.sender) + 1
                   /\ \A a \in Account \ {lastCall'.sender} : balance_of_after(a) = balance_of(a)
                   /\ get_approved_after(lastCall'.token_id) = None
                   /\ TokenApprovals' = TokenApprovals
                   /\ OperatorApprovals' = OperatorApprovals
                   /\ events' = <<Transfer(None, lastCall'.sender, lastCall'.token_id)>>)]_vars

\* a second mint of a token id, by an account that does not own it, was
\* refused after other calls had been made in between
C10_Witness ==
    /\ lastCall.op = "create_token"
    /\ result = ErrExists
    /\ calls >= 3
    /\ owner_of(lastCall.token_id) \notin {None, lastCall.sender}

\* C11: when create_token mints a missing token t to a and _burn(t) follows,
\* the burn succeeds and every getter (balance_of, owner_of, get_approved,
\* is_approved_for_all), so also _exists(t), returns what it returned before
\* the mint.
C11_MintThenBurnRestores ==
    (lastCall.op = "_burn" /\ beforeMint.token_id = lastCall.token_id)
        => /\ result = Ok
           /\ ~_exists(lastCall.token_id)
           /\ GetterView(lastCall.token_id) = beforeMint

\* a token was minted to an account that already held one, and burned at once
C11_Witness ==
    /\ lastCall.op = "_burn"
    /\ beforeMint.token_id = lastCall.token_id
    /\ result = Ok
    /\ \E a \in Account : events = <<Transfer(a, None, lastCall.token_id)>> /\ balance_of(a) >= 1

\* C12: safe_transfer_from fails with the ExistentialDeposit message and
\* changes no map when the free balance of to is zero, whoever the caller is;
\* otherwise its Result, its events and the maps it leaves are those of
\* transfer_from with the same caller, from, to and tokenId in the same state.
C12_SafeTransferIsGuardedTransfer ==
    [][lastCall'.op = "safe_transfer_from"
       => IF lastCall'.to_balance = 0
          THEN result' = ErrExistentialDeposit /\ events' = <<>> /\ UNCHANGED maps
          ELSE transfer_from(lastCall'.sender, lastCall'.from, lastCall'.to, lastCall'.token_id)]_vars

\* the owner of a token was refused a safe transfer to an account without
\* free balance
C12_Witness ==
    /\ lastCall.op = "safe_transfer_from"
    /\ lastCall.to_balance = 0
    /\ lastCall.sender = lastCall.from
    /\ owner_of(lastCall.token_id) = lastCall.from
    /\ lastCall.to # lastCall.from
    /\ result = ErrExistentialDeposit

\* C13: no counter leaves 0..CounterMax; a mint of a missing token to an
\* account whose counter is at the maximum fails with the mint overflow
\* message, an authorised transfer_from of a token of from into such an account
\* fails with the transfer overflow message, and both write nothing.
C13_OverflowRejected ==
    [][/\ \A a \in Account : balance_of_after(a) \in 0..CounterMax
       /\ (/\ lastCall'.op = "create_token"
           /\ owner_of(lastCall'.token_id) = None
           /\ balance_of(lastCall'.sender) = CounterMax)
            => (result' = ErrMintOverflow /\ events' = <<>> /\ UNCHANGED maps)
       /\ (/\ lastCall'.op = "transfer_from"
           /\ owner_of(lastCall'.token_id) = lastCall'.from
           /\ ~Unauthorised(lastCall'.sender, lastCall'.token_id)
           /\ balance_of(lastCall'.to) = CounterMax)
            => (result' = ErrTransferOverflow /\ events' = <<>> /\ UNCHANGED maps)]_vars

\* a transfer into another account whose counter is at the maximum was
\* refused, and the sender still has its counter and its token
C13_Witness ==
    /\ lastCall.op = "transfer_from"
    /\ result = ErrTransferOverflow
    /\ lastCall.from # lastCall.to
    /\ balance_of(lastCall.to) = CounterMax
    /\ balance_of(lastCall.from) >= 1
    /\ owner_of(lastCall.token_id) = lastCall.from

\* C14: for a token without owner _is_approved_or_owner is false for every
\* spender, and a transfer_from on such a token (which has no owner after the
\* call either, no transfer removing one) has failed with "You do not own this
\* token", whoever the caller was.
C14_FailClosed ==
    /\ \A t \in Hash, spender \in Account :
          owner_of(t) = None => ~_is_approved_or_owner(spender, t)
    /\ (lastCall.op = "transfer_from" /\ owner_of(lastCall.token_id) = None)
          => result = ErrNotOwner

\* an operator of the former owner tried to transfer a burned token
C14_Witness ==
    /\ lastCall.op = "transfer_from"
    /\ owner_of(lastCall.token_id) = None
    /\ lastCall.sender # lastCall.from
    /\ OperatorApprovals[<<lastCall.from, lastCall.sender>>]
    /\ balance_of(lastCall.from) = 0
    /\ lastCall.from \in DOMAIN OwnedTokensCount
    /\ result = ErrNotOwner

\* C15: the counter of an account is never smaller than the number of tokens
\* it owns, and neither _burn nor a transfer ever fails with an underflow
\* message.
C15_NoUnderflow ==
    /\ \A a \in Account : balance_of(a) >= Cardinality(OwnedBy(a))
    /\ result \notin {ErrBurnUnderflow, ErrTransferUnderflow}

\* the last token of an account was burned, which took its counter to 0
C15_Witness ==
    /\ lastCall.op = "_burn"
    /\ result = Ok
    /\ \E a \in Account : events = <<Transfer(a, None, lastCall.token_id)>> /\ balance_of(a) = 0

\* C16: a successful approve changes only TokenApprovals[tokenId], to
\* Some(to); a successful set_approval_for_all changes only
\* OperatorApprovals[(caller, operator)], to approved, so a revocation leaves
\* every approval of a single token in place; set_approval_for_all for another
\* account always succeeds, and changes no map when the entry already has the
\* value.
C16_ApprovalsTouchApprovalMapsOnly ==
    [][/\ (lastCall'.op = "approve" /\ result' = Ok)
            => /\ TokenApprovals' = Insert(TokenApprovals, lastCall'.token_id, lastCall'.to)
               /\ UNCHANGED <<OwnedTokensCount, TokenOwner, OperatorApprovals>>
       /\ (lastCall'.op = "set_approval_for_all" /\ lastCall'.to # lastCall'.sender)
            => /\ result' = Ok
               /\ OperatorApprovals' =
                     [pair \in Account \X Account |->
                         IF pair = <<lastCall'.sender, lastCall'.to>>
                         THEN lastCall'.approved ELSE OperatorApprovals[pair]]
               /\ UNCHANGED <<OwnedTokensCount, TokenOwner, TokenApprovals>>
               /\ OperatorApprovals[<<lastCall'.sender, lastCall'.to>>] = lastCall'.approved
                     => UNCHANGED maps]_vars

\* an owner revoked an operator while one of its tokens carried an approval
\* for a third account, which is still there
C16_Witness ==
    /\ lastCall.op = "set_approval_for_all"
    /\ lastCall.approved = FALSE
    /\ result = Ok
    /\ \E t \in Hash :
          /\ owner_of(t) = lastCall.sender
          /\ get_approved(t) \notin {None, lastCall.sender, lastCall.to}

\* C17: a call deposits an event exactly when it succeeds; every Transfer
\* event names as from the owner of the token before the call (None exactly
\* for a mint) and as to its owner after the call (None exactly for a burn);
\* TokenOwner[t] changes only in a step that deposits a Transfer for t; and the
\* owner of t is always the to of the last Transfer deposited for t.
C17_TransferEventsMatchOwnership ==
    [][/\ events' # <<>> <=> result' = Ok
       /\ \A i \in 1..Len(events') :
            events'[i].event = "Transfer"
            => /\ events'[i].from = owner_of(events'[i].token_id)
               /\ events'[i].to = owner_of_after(events'[i].token_id)
               /\ events'[i].from = None <=> lastCall'.op = "create_token"
               /\ events'[i].to = None <=> lastCall'.op = "_burn"
       /\ \A t \in Hash :
            /\ owner_of_after(t) # owner_of(t)
                 => \E i \in 1..Len(events') :
                       events'[i].event = "Transfer" /\ events'[i].token_id = t
            /\ owner_of_after(t) = lastTransferTo'[t]]_vars

\* a token was burned in a run of at least three calls, after which its
\* last Transfer names no owner, while the other token has one
C17_Witness ==
    /\ lastCall.op = "_burn"
    /\ result = Ok
    /\ calls >= 3
    /\ lastTransferTo[lastCall.token_id] = None
    /\ \E t \in Hash : lastTransferTo[t] # None

\* C18: an approval is attached only to an existing token and never names the
\* owner of that token.
C18_ApprovalNeverNamesOwner ==
    \A t \in Hash :
        get_approved(t) # None => (owner_of(t) # None /\ owner_of(t) # get_approved(t))

\* the approved spender of a token transferred it to itself
C18_Witness ==
    /\ lastCall.op = "transfer_from"
    /\ result = Ok
    /\ lastCall.sender = lastCall.to
    /\ lastCall.sender # lastCall.from
    /\ ~OperatorApprovals[<<lastCall.from, lastCall.sender>>]
    /\ owner_of(lastCall.token_id) = lastCall.sender

\* a transfer of a token between two accounts has just succeeded
TransferJustMade ==
    /\ lastCall.op \in {"transfer_from", "safe_transfer_from"}
    /\ result = Ok
    /\ lastCall.from # lastCall.to

\* C19: right after a successful transfer of t from from to another account
\* to, _is_approved_or_owner(x, t) holds exactly for to and the operators of
\* to, and a transfer_from or approve on t made next by any other account
\* fails.
C19_AuthorityMovesWithToken ==
    [][/\ (TransferJustMade
            => \A x \in Account :
                  _is_approved_or_owner(x, lastCall.token_id)
                  <=> (x = lastCall.to \/ OperatorApprovals[<<lastCall.to, x>>]))'
       /\ (/\ TransferJustMade
           /\ lastCall'.op \in {"transfer_from", "approve"}
           /\ lastCall'.token_id = lastCall.token_id
           /\ lastCall'.sender # lastCall.to
           /\ ~OperatorApprovals[<<lastCall.to, lastCall'.sender>>])
            => (result' # Ok /\ UNCHANGED maps)]_vars

\* after the transfer the former owner and an operator it had named, whose
\* entry is still stored, have no authority over the token
C19_Witness ==
    /\ TransferJustMade
    /\ ~_is_approved_or_owner(lastCall.from, lastCall.token_id)
    /\ \E x \in Account \ {lastCall.from, lastCall.to} :
          /\ OperatorApprovals[<<lastCall.from, x>>]
          /\ ~_is_approved_or_owner(x, lastCall.token_id)

\* C20: through the dispatchable calls alone a token that has an owner keeps
\* having one, and a token gets its first owner only in a create_token step,
\* which makes the caller its owner.
C20_NoTokenDestroyed ==
    [][\A t \in Hash :
         /\ owner_of(t) # None => owner_of_after(t) # None
         /\ (owner_of(t) = None /\ owner_of_after(t) # None)
              => /\ lastCall'.op = "create_token"
                 /\ lastCall'.token_id = t
                 /\ owner_of_after(t) = lastCall'.sender]_vars

\* a token was created in a run of at least three calls while the other
\* token, owned by another account, still exists
C20_Witness ==
    /\ lastCall.op = "create_token"
    /\ result = Ok
    /\ owner_of(lastCall.token_id) = lastCall.sender
    /\ \E t \in Hash \ {lastCall.token_id} :
          owner_of(t) \notin {None, lastCall.sender} /\ calls >= 3

====
